---- MODULE Spec2Model ----
(***************************************************************************)
(* A state-machine model of amt_nano/db/vec.py: the Vec class that seeds a *)
(* SurrealDB knowledge table with embedded text (seed, insert) and answers *)
(* questions from it (get_context, rag_chat).                              *)
(*                                                                         *)
(* One Vec operation runs per behaviour.  Every awaited call to the store, *)
(* the embedding provider or the completion service is one step, and each  *)
(* such call either answers or raises.  `calls` is the history of the      *)
(* external calls issued so far, in order; `faults` holds the calls that   *)
(* raised.                                                                 *)
(***************************************************************************)
EXTENDS Integers, Sequences, FiniteSets, TLC

(***************************************************************************)
(* Bounds of the model.                                                    *)
(***************************************************************************)
MaxDocs == 3

MaxChunk == 3

MaxRows == 2

MaxInits == 2

MaxBatch == 2

MaxTokens == 2

MaxCases == 2

MaxRuns == 2

MaxTreatments == 2

(***************************************************************************)
(* Values.  An id is the sequence of its ":"-separated segments, so that   *)
(* "knowledge:1" is <<"knowledge", "1">> and the empty string is <<"">>.   *)
(***************************************************************************)
surrealdb_table == "knowledge"

FALLBACK == "I don't have enough information to answer that question."

EmptyId == <<"">>

DocSet ==
    { [id |-> <<"knowledge", "1">>, text |-> "a"],
      [id |-> <<"2">>, text |-> "b"],
      [id |-> <<"1">>, text |-> "b"],
      [id |-> EmptyId, text |-> "c"],
      [id |-> <<"3">>, text |-> ""] }

\* knowledge_hsnw_v2: ASSERT array::len($value) = 1536
DIMENSION == 1536

\* The vector lengths an embedding model can answer with: that of
\* text-embedding-3-small, and that of a 384-dimension model.
Dims == {DIMENSION, 384}

\* The schema of the knowledge table: the table, the embedding field with its
\* length assertion, and the idx_knn index.
FreshSchema == [table |-> FALSE, assert |-> FALSE, index |-> FALSE]

\* A request without a token: no Authorization header, no auth_token in the
\* flask session, or an empty string (`if not token`).
NoToken == -1

\* A token no authenticate_user call has issued.
Forged == 0

\* The User table: an active user and a deactivated one.
UserTable ==
    [u \in {"alice", "bob"} |->
        [id |-> u, role |-> IF u = "alice" THEN "patient" ELSE "provider", active |-> u = "alice"]]

\* UserService.active_sessions of a new UserService
NoSessions == [t \in {} |-> [user_id |-> "", username |-> "", role |-> "", expired |-> FALSE]]

NoLogin == [ok |-> FALSE, msg |-> "", token |-> NoToken]

NoG == [set |-> FALSE, user_id |-> "", role |-> ""]

NoReq ==
    [dec |-> "none", header |-> NoToken, cookie |-> NoToken, token |-> NoToken,
     pc |-> "idle", status |-> 0, ran |-> FALSE, result |-> "none"]

\* find_recommendations before it is called
NoRec == [pc |-> "idle", cases |-> <<>>, i |-> 0, j |-> 0, printed |-> <<>>, err |-> ""]

\* The Upload record before its task runs, and the task's position
NoUpload ==
    [pc |-> "idle", file_type |-> "", status |-> "PENDING", text |-> "",
     result_text |-> "", writes |-> <<>>, raised |-> FALSE, runs |-> 0]

\* The create_user calls that can run at the same time
Creators == {1, 2}

NoCreator == [pc |-> "idle", username |-> "", email |-> "", ret |-> ""]

\* The insert tasks a caller runs at the same time on one connection.
Tasks == {1, 2}

\* Records for the concurrent inserts: two with different source identities
\* that end in the same segment, and one apart.
ConcDocs ==
    { [id |-> <<"a", "1">>, text |-> "x"],
      [id |-> <<"b", "1">>, text |-> "y"],
      [id |-> <<"2">>, text |-> "z"] }

DataTypes == {"json", "jsonl", "xml"}

Chunks == 0..MaxChunk

SeqsUpTo(S, n) == UNION { [1..k -> S] : k \in 0..n }

\* The parsed sources: up to MaxDocs records, no record listed twice (two
\* records of one source may still share an identity).
Sources ==
    { s \in SeqsUpTo(DocSet, MaxDocs) : \A i, j \in DOMAIN s : s[i] = s[j] => i = j }

\* A context value of get_context: None, or a list of passages.
NoneCtx == [none |-> TRUE, rows |-> <<>>]

ListCtx(r) == [none |-> FALSE, rows |-> r]

\* What a caller got: nothing yet, a returned value, or an exception.
NoRet == [kind |-> "none", val |-> "none", ctx |-> NoneCtx]

Returned(v) == [kind |-> "returned", val |-> v, ctx |-> NoneCtx]

ReturnedCtx(c) == [kind |-> "returned", val |-> "context", ctx |-> c]

Raised(e) == [kind |-> "raised", val |-> e, ctx |-> NoneCtx]

NoRes == [kind |-> "unset", rows |-> <<>>]

EmptyStore == [k \in {} |-> NoRes]

Count(s, x) == Cardinality({ i \in 1..Len(s) : s[i] = x })

VARIABLES
    hasClient,  \* self.client is not None
    op,         \* the Vec method the caller invoked
    pc,         \* position inside it
    conn,       \* the AsyncSurreal connection of this call: none, open, closed
    calls,      \* history of external calls, in issue order
    faults,     \* the external calls that raised
    ret,        \* what the caller of `op` got
    data_type, chunk, files,   \* seed's parameters
    docs,       \* the parsed source
    idx,        \* number of docs the for loop has consumed
    batch,      \* the BatchList handed to insert
    tail,       \* insert was called from the trailing `if batch:` block
    embedLog,   \* size of each embeddings.create request of insert
    upsertLog,  \* per upsert: the batch size, the store's answer, what was logged
    store,      \* the knowledge table: stored id -> text and embedding
    res,        \* get_context: the similarity query's answer
    excepted,   \* get_context: the except branch caught the query's exception
    context,    \* rag_chat: what get_context returned
    embedDim,   \* length of the vectors self.embed_model answers with
    schema,     \* what is defined on the knowledge table
    initLog,    \* the schema left by each init call that returned
    initStore,  \* the knowledge table when the running init call started
    rerun,      \* this seed call repeats a cancelled one on the same source
    seeded      \* an earlier seed call of this behaviour has ended

seedVars == <<data_type, chunk, files, docs, idx, batch, tail, embedLog, upsertLog, store>>

chatVars == <<res, excepted, context>>

dbVars == <<embedDim, schema, initLog, initStore, rerun, seeded>>

VARIABLES
    tasks,          \* concurrent inserts: each task's batch and position
    order,          \* concurrent inserts: the tasks in the order the store wrote them
    users,          \* the User table: username -> record
    loginSessions,  \* active_sessions of the UserService that serves logins
    nextToken,      \* number of session tokens issued so far
    login,          \* what the last authenticate_user or logout call returned
    req,            \* the request being served by a decorated handler
    reqSessions,    \* active_sessions of the UserService the decorator builds
    g               \* flask.g of the request

VARIABLES
    rec,            \* the find_recommendations call
    upload,         \* the Upload record and the process_upload_task run on it
    creators,       \* the create_user calls in progress
    created         \* the User records create_user has written, oldest first

svcVars == <<rec, upload, creators, created>>

concVars == <<tasks, order>>

authVars == <<users, loginSessions, nextToken, login, req, reqSessions, g>>

auxVars == <<concVars, authVars, svcVars>>

vecVars == <<hasClient, op, pc, conn, calls, faults, ret, seedVars, chatVars, dbVars>>

vars == <<vecVars, auxVars>>

Init ==
    /\ hasClient \in BOOLEAN
    /\ op = "idle"
    /\ pc = "idle"
    /\ conn = "none"
    /\ calls = <<>>
    /\ faults = {}
    /\ ret = NoRet
    /\ data_type = "json"
    /\ chunk = 96
    /\ files = FALSE
    /\ docs = <<>>
    /\ idx = 0
    /\ batch = <<>>
    /\ tail = FALSE
    /\ embedLog = <<>>
    /\ upsertLog = <<>>
    /\ store = EmptyStore
    /\ res = NoRes
    /\ excepted = FALSE
    /\ context = NoneCtx
    /\ embedDim \in Dims
    /\ schema = FreshSchema
    /\ initLog = <<>>
    /\ initStore = EmptyStore
    /\ rerun = FALSE
    /\ seeded = FALSE
    /\ tasks = [t \in Tasks |-> [batch |-> <<>>, pc |-> "none"]]
    /\ order = <<>>
    /\ users = UserTable
    /\ loginSessions = NoSessions
    /\ nextToken = 0
    /\ login = NoLogin
    /\ req = NoReq
    /\ reqSessions = NoSessions
    /\ g = NoG
    /\ rec = NoRec
    /\ upload = NoUpload
    /\ creators = [t \in Creators |-> NoCreator]
    /\ created = <<>>

(***************************************************************************)
(* An awaited external call is recorded in `calls`; it answers, or it      *)
(* raises and, where no handler encloses it, the exception leaves the      *)
(* running method.                                                         *)
(***************************************************************************)
Issue(name) == calls' = Append(calls, name)

Raise(name, err) ==
    /\ faults' = faults \cup {name}
    /\ ret' = Raised(err)
    /\ pc' = "raised"

(***************************************************************************)
(* Vec.seed                                                                *)
(***************************************************************************)
SeedStart ==
    /\ pc = "idle"
    /\ ~seeded
    /\ \E dt \in DataTypes, c \in Chunks, f \in BOOLEAN :
         /\ data_type' = dt
         /\ chunk' = c
         /\ files' = f
    /\ op' = "seed"
    /\ pc' = "seed_connect"
    /\ UNCHANGED <<hasClient, conn, calls, faults, ret, docs, idx, batch, tail,
                   embedLog, upsertLog, store, chatVars>>
    /\ UNCHANGED dbVars
    /\ UNCHANGED auxVars

\* db.connect()
SeedConnect ==
    /\ pc = "seed_connect"
    /\ Issue("connect")
    /\ \/ /\ conn' = "open"
          /\ pc' = "seed_signin"
          /\ UNCHANGED <<faults, ret>>
       \/ /\ Raise("connect", "StoreError")
          /\ UNCHANGED conn
    /\ UNCHANGED <<hasClient, op, seedVars, chatVars>>
    /\ UNCHANGED dbVars
    /\ UNCHANGED auxVars

\* db.signin(...), db.use(...), and the two INFO queries: no handler around them
SeedSetup ==
    /\ \E step \in { <<"seed_signin", "signin", "seed_use">>,
                     <<"seed_use", "use", "seed_info_db">>,
                     <<"seed_info_db", "query", "seed_info_table">>,
                     <<"seed_info_table", "query", "seed_load">> } :
         /\ pc = step[1]
         /\ Issue(step[2])
         /\ \/ /\ pc' = step[3]
               /\ UNCHANGED <<faults, ret>>
            \/ Raise(step[2], "StoreError")
    /\ UNCHANGED <<hasClient, op, conn, seedVars, chatVars>>
    /\ UNCHANGED dbVars
    /\ UNCHANGED auxVars

\* Lines 242-254: the data type is checked, then the source is read and parsed.
SeedLoad ==
    /\ pc = "seed_load"
    /\ IF data_type \notin {"jsonl", "json"}
       THEN /\ ret' = Raised("ValueError")
            /\ pc' = "raised"
            /\ UNCHANGED <<faults, docs>>
       ELSE \/ /\ Raise("source", "IOError")
               /\ UNCHANGED docs
            \/ /\ \E d \in (IF rerun THEN {docs} ELSE Sources) : docs' = d
               /\ pc' = "seed_loop"
               /\ UNCHANGED <<faults, ret>>
    /\ UNCHANGED <<hasClient, op, conn, calls, data_type, chunk, files, idx, batch,
                   tail, embedLog, upsertLog, store, chatVars>>
    /\ UNCHANGED dbVars
    /\ UNCHANGED auxVars

\* BatchItem.__init__: `if not id or not text: raise ValueError`
BatchItemOk(d) == d.id # EmptyId /\ d.text # ""

\* FillBatch with the loop's test written `len(batch) > chunk`.
RECURSIVE FillBatchGreater(_, _, _, _)
FillBatchGreater(ds, i, b, c) ==
    IF i >= Len(ds)
    THEN [i |-> i, batch |-> b, full |-> FALSE]
    ELSE LET nb == Append(b, ds[i + 1])
         IN  IF Len(nb) > c
             THEN [i |-> i + 1, batch |-> nb, full |-> TRUE]
             ELSE FillBatchGreater(ds, i + 1, nb, c)

\* The for loop of seed from document i on, up to the next `len(batch) == chunk`
\* or the end of docs: the documents consumed, the batch, and whether it is full.
RECURSIVE FillBatch(_, _, _, _)
FillBatch(ds, i, b, c) ==
    IF i >= Len(ds)
    THEN [i |-> i, batch |-> b, full |-> FALSE]
    ELSE LET nb == Append(b, ds[i + 1])
         IN  IF Len(nb) = c
             THEN [i |-> i + 1, batch |-> nb, full |-> TRUE]
             ELSE FillBatch(ds, i + 1, nb, c)

\* Lines 259-278 and 282-299: the loop runs to the next insert; batch_data is
\* built (reading the files when `files`), then BatchList([BatchItem(**d) ...]).
SeedBatch ==
    /\ pc = "seed_loop"
    /\ LET f == FillBatch(docs, idx, <<>>, chunk)
       IN  IF f.batch = <<>>
           THEN /\ pc' = "seed_sample"
                /\ UNCHANGED <<faults, ret, idx, batch, tail>>
           ELSE \/ /\ files
                   /\ Raise("file", "IOError")
                   /\ UNCHANGED <<idx, batch, tail>>
                \/ IF \E k \in 1..Len(f.batch) : ~BatchItemOk(f.batch[k])
                   THEN /\ ret' = Raised("ValueError")
                        /\ pc' = "raised"
                        /\ UNCHANGED <<faults, idx, batch, tail>>
                   ELSE /\ idx' = f.i
                        /\ batch' = f.batch
                        /\ tail' = ~f.full
                        /\ pc' = "ins_check"
                        /\ UNCHANGED <<faults, ret>>
    /\ UNCHANGED <<hasClient, op, conn, calls, data_type, chunk, files, docs,
                   embedLog, upsertLog, store, chatVars>>
    /\ UNCHANGED dbVars
    /\ UNCHANGED auxVars

(***************************************************************************)
(* Vec.insert, called by seed                                              *)
(***************************************************************************)
\* AfterInsert for a seed that stops after its first insert.
AfterInsertStops == "seed_sample"

\* Where insert's caller continues after `await self.insert(batch_list, db)`.
AfterInsert == IF tail THEN "seed_sample" ELSE "seed_loop"

\* Lines 313-320
InsertCheck ==
    /\ pc = "ins_check"
    /\ IF ~hasClient
       THEN /\ ret' = Raised("ValueError")
            /\ pc' = "raised"
            /\ UNCHANGED batch
       ELSE IF batch = <<>>
            THEN /\ pc' = AfterInsert
                 /\ UNCHANGED <<ret, batch>>
            ELSE /\ pc' = "ins_embed"
                 /\ UNCHANGED <<ret, batch>>
    /\ UNCHANGED <<hasClient, op, conn, calls, faults, data_type, chunk, files, docs,
                   idx, tail, embedLog, upsertLog, store, chatVars>>
    /\ UNCHANGED dbVars
    /\ UNCHANGED auxVars

\* Lines 330-332: one embeddings.create for the whole batch, outside any try
InsertEmbed ==
    /\ pc = "ins_embed"
    /\ Issue("embed")
    /\ embedLog' = Append(embedLog, Len(batch))
    /\ \/ /\ pc' = "ins_upsert"
          /\ UNCHANGED <<faults, ret>>
       \/ Raise("embed", "ProviderError")
    /\ UNCHANGED <<hasClient, op, conn, data_type, chunk, files, docs, idx, batch,
                   tail, upsertLog, store, chatVars>>
    /\ UNCHANGED dbVars
    /\ UNCHANGED auxVars

\* The vector the provider answers for a text.
Embed(t) == [of |-> t, dim |-> embedDim]

\* Line 337: b["id"].split(":")[-1]
RawId(id) == id[Len(id)]

\* Items with the vectors paired to the records from the other end.
ItemsMispaired(b) ==
    [i \in 1..Len(b) |->
        [id |-> <<surrealdb_table, b[i].id[Len(b[i].id)]>>,
         text |-> b[i].text,
         embedding |-> [of |-> b[Len(b) + 1 - i].text, dim |-> embedDim]]]

\* Items with the table name put before the whole source id.
ItemsUnstripped(b) ==
    [i \in 1..Len(b) |->
        [id |-> <<surrealdb_table>> \o b[i].id,
         text |-> b[i].text,
         embedding |-> Embed(b[i].text)]]

\* Lines 326-344: the provider answers one vector per text, in request order,
\* and zip pairs the i-th record with the i-th vector.
Items(b) ==
    [i \in 1..Len(b) |->
        [id |-> <<surrealdb_table, RawId(b[i].id)>>,
         text |-> b[i].text,
         embedding |-> Embed(b[i].text)]]

\* Upsert with the statement written as a plain insert that skips a record
\* whose key is already there.
UpsertKeepExisting(st, items) ==
    LET ids == { items[i].id : i \in DOMAIN items }
        first(k) == CHOOSE i \in DOMAIN items :
                       /\ items[i].id = k
                       /\ \A j \in DOMAIN items : items[j].id = k => i <= j
    IN  [k \in (DOMAIN st) \cup ids |->
            IF k \in DOMAIN st
            THEN st[k]
            ELSE [text |-> items[first(k)].text, embedding |-> items[first(k)].embedding]]

\* INSERT INTO table $data ON DUPLICATE KEY UPDATE text, embedding (line 348)
Upsert(st, items) ==
    LET ids == { items[i].id : i \in DOMAIN items }
        last(k) == CHOOSE i \in DOMAIN items :
                      /\ items[i].id = k
                      /\ \A j \in DOMAIN items : items[j].id = k => j <= i
    IN  [k \in (DOMAIN st) \cup ids |->
            IF k \in ids
            THEN [text |-> items[last(k)].text, embedding |-> items[last(k)].embedding]
            ELSE st[k]]

\* What db.query can answer to the upsert: it raises, or returns a string, a list
\* whose first item has status ERR, a list with an ERR status further on, a list
\* of items that are not dicts, a list reporting success, or any other value
\* (None, a dict, an empty list).
UpsertResponses ==
    {"ok", "str", "err_first", "err_later", "nondict", "other", "exception"}

\* Lines 358-375: what insert logs for the store's answer.
Logged(r) ==
    CASE r = "exception" -> "fail"
      [] r = "str" -> "error"
      [] r = "nondict" -> "fail"
      [] r = "err_first" -> "error"
      [] OTHER -> "ok"

\* The store takes a write of these items unless the embedding field's
\* assertion is defined and a vector has another length (lines 60-62).
StoreAccepts(items) ==
    schema.assert => \A i \in DOMAIN items : items[i].embedding.dim = DIMENSION

\* InsertUpsert with the query awaited outside the try: its exception leaves
\* insert.
InsertUpsertRaises ==
    /\ pc = "ins_upsert"
    /\ Issue("upsert")
    /\ \E r \in UpsertResponses :
         /\ r = "ok" => StoreAccepts(Items(batch))
         /\ upsertLog' = Append(upsertLog,
                                [size |-> Len(batch), resp |-> r, logged |-> Logged(r),
                                 dim |-> embedDim, batch |-> batch,
                                 items |-> Items(batch)])
         /\ store' = IF r = "ok" THEN Upsert(store, Items(batch)) ELSE store
         /\ IF r = "exception"
            THEN Raise("upsert", "StoreError")
            ELSE /\ pc' = AfterInsert
                 /\ UNCHANGED <<faults, ret>>
    /\ batch' = <<>>
    /\ UNCHANGED <<hasClient, op, conn, data_type, chunk, files, docs, idx,
                   tail, embedLog, chatVars>>
    /\ UNCHANGED dbVars
    /\ UNCHANGED auxVars

\* Lines 346-375: the single upsert, inside try/except Exception
InsertUpsert ==
    /\ pc = "ins_upsert"
    /\ Issue("upsert")
    /\ \E r \in UpsertResponses :
         /\ r = "ok" => StoreAccepts(Items(batch))
         /\ upsertLog' = Append(upsertLog,
                                [size |-> Len(batch), resp |-> r, logged |-> Logged(r),
                                 dim |-> embedDim, batch |-> batch,
                                 items |-> Items(batch)])
         /\ store' = IF r = "ok" THEN Upsert(store, Items(batch)) ELSE store
         /\ faults' = IF r = "exception" THEN faults \cup {"upsert"} ELSE faults
    /\ pc' = AfterInsert
    /\ batch' = <<>>
    /\ UNCHANGED <<hasClient, op, conn, ret, data_type, chunk, files, docs, idx,
                   tail, embedLog, chatVars>>
    /\ UNCHANGED dbVars
    /\ UNCHANGED auxVars

\* Lines 303-304: the sample query; seed returns without closing db
SeedSample ==
    /\ pc = "seed_sample"
    /\ Issue("query")
    /\ \/ /\ ret' = Returned("None")
          /\ pc' = "done"
          /\ UNCHANGED faults
       \/ Raise("query", "StoreError")
    /\ UNCHANGED <<hasClient, op, conn, seedVars, chatVars>>
    /\ UNCHANGED dbVars
    /\ UNCHANGED auxVars

(***************************************************************************)
(* Vec.get_context, called directly or by rag_chat                         *)
(***************************************************************************)
\* A row of the store's answer: a dict with a "text" key, a dict without one,
\* or something that is not a dict.
RowSet ==
    { [isDict |-> TRUE, hasText |-> TRUE, text |-> "p1"],
      [isDict |-> TRUE, hasText |-> TRUE, text |-> "p2"],
      [isDict |-> TRUE, hasText |-> FALSE, text |-> ""],
      [isDict |-> FALSE, hasText |-> FALSE, text |-> ""] }

RowLists == SeqsUpTo(RowSet, MaxRows)

\* What db.query can answer to the similarity query: a list of rows; a dict
\* {"result": [rows]}; a dict whose "result" is not a list; a dict without
\* "result"; a string containing the word result; a string without it; None;
\* a value json.dumps cannot serialise.
QueryResponses ==
    { [kind |-> k, rows |-> r] : k \in {"list", "envelope"}, r \in RowLists }
    \cup { [kind |-> k, rows |-> <<>>] :
             k \in {"dict_result_other", "dict_plain", "str_result", "str_plain",
                    "none", "unserialisable"} }

\* json.dumps(res, indent=2) of line 406 raises TypeError on such a value.
DumpsRaises(r) == r.kind = "unserialisable"

\* isinstance(res, list)
IsList(r) == r.kind = "list"

\* `"result" in res` raises TypeError when res is not a container (None).
InRaises(r) == r.kind = "none"

\* `"result" in res`: a key of a dict, a substring of a string
HasResult(r) == r.kind \in {"envelope", "dict_result_other", "str_result"}

\* res["result"] raises TypeError on a string: string indices must be integers.
SubscriptRaises(r) == r.kind = "str_result"

\* ResultIsList for a get_context that knows the flat list only.
ResultIsListNever(r) == FALSE

\* isinstance(res["result"], list)
ResultIsList(r) == r.kind = "envelope"

RECURSIVE Texts(_)
\* [row["text"] for row in rows if isinstance(row, dict) and "text" in row]
Texts(rows) ==
    IF rows = <<>>
    THEN <<>>
    ELSE LET row == Head(rows)
         IN  IF row.isDict /\ row.hasText
             THEN <<row.text>> \o Texts(Tail(rows))
             ELSE Texts(Tail(rows))

\* Lines 414-421: the outcome of get_context for the store's answer r.
ShapeOutcome(r) ==
    IF IsList(r)
    THEN ReturnedCtx(ListCtx(Texts(r.rows)))
    ELSE IF InRaises(r)
         THEN Raised("TypeError")
         ELSE IF HasResult(r)
              THEN IF SubscriptRaises(r)
                   THEN Raised("TypeError")
                   ELSE IF ResultIsList(r)
                        THEN ReturnedCtx(ListCtx(Texts(r.rows)))
                        ELSE ReturnedCtx(NoneCtx)
              ELSE ReturnedCtx(NoneCtx)

GetContextStart ==
    /\ pc = "idle"
    /\ op' = "get_context"
    /\ pc' = "gc_check"
    /\ UNCHANGED <<hasClient, conn, calls, faults, ret, seedVars, chatVars>>
    /\ UNCHANGED dbVars
    /\ UNCHANGED auxVars

\* Lines 387-390
GetContextCheck ==
    /\ pc = "gc_check"
    /\ IF ~hasClient
       THEN /\ ret' = Raised("ValueError")
            /\ pc' = "raised"
       ELSE /\ pc' = "gc_embed"
            /\ UNCHANGED ret
    /\ UNCHANGED <<hasClient, op, conn, calls, faults, seedVars, chatVars>>
    /\ UNCHANGED dbVars
    /\ UNCHANGED auxVars

\* Lines 391-394: the question is embedded before the connection is opened
GetContextEmbed ==
    /\ pc = "gc_embed"
    /\ Issue("embed")
    /\ \/ /\ pc' = "gc_connect"
          /\ UNCHANGED <<faults, ret>>
       \/ Raise("embed", "ProviderError")
    /\ UNCHANGED <<hasClient, op, conn, seedVars, chatVars>>
    /\ UNCHANGED dbVars
    /\ UNCHANGED auxVars

\* Line 396
GetContextConnect ==
    /\ pc = "gc_connect"
    /\ Issue("connect")
    /\ \/ /\ conn' = "open"
          /\ pc' = "gc_signin"
          /\ UNCHANGED <<faults, ret>>
       \/ /\ Raise("connect", "StoreError")
          /\ UNCHANGED conn
    /\ UNCHANGED <<hasClient, op, seedVars, chatVars>>
    /\ UNCHANGED dbVars
    /\ UNCHANGED auxVars

\* Lines 397-398: signin and use, before the try statement
GetContextSetup ==
    /\ \E step \in { <<"gc_signin", "signin", "gc_use">>,
                     <<"gc_use", "use", "gc_query">> } :
         /\ pc = step[1]
         /\ Issue(step[2])
         /\ \/ /\ pc' = step[3]
               /\ UNCHANGED <<faults, ret>>
            \/ Raise(step[2], "StoreError")
    /\ UNCHANGED <<hasClient, op, conn, seedVars, chatVars>>
    /\ UNCHANGED dbVars
    /\ UNCHANGED auxVars

\* Lines 403-410: the query and the debug log of its answer, inside try; an
\* exception of either is caught and get_context will return None.
GetContextQuery ==
    /\ pc = "gc_query"
    /\ Issue("query")
    /\ \/ /\ faults' = faults \cup {"query"}
          /\ excepted' = TRUE
          /\ UNCHANGED res
       \/ /\ \E r \in QueryResponses :
               /\ res' = r
               /\ excepted' = DumpsRaises(r)
          /\ UNCHANGED faults
    /\ pc' = "gc_close"
    /\ UNCHANGED <<hasClient, op, conn, ret, seedVars, context>>
    /\ UNCHANGED dbVars
    /\ UNCHANGED auxVars

\* get_context hands `out` to its caller: the caller of Vec, or rag_chat.
GetContextExit(out) ==
    IF out.kind = "returned" /\ op = "rag_chat"
    THEN /\ context' = out.ctx
         /\ pc' = "rc_branch"
         /\ UNCHANGED ret
    ELSE /\ ret' = out
         /\ pc' = IF out.kind = "raised" THEN "raised" ELSE "done"
         /\ UNCHANGED context

\* Lines 411-421: the finally clause closes the connection, then the answer's
\* shape decides what is returned.
GetContextClose ==
    /\ pc = "gc_close"
    /\ Issue("close")
    /\ \/ /\ conn' = "closed"
          /\ GetContextExit(IF excepted THEN ReturnedCtx(NoneCtx) ELSE ShapeOutcome(res))
          /\ UNCHANGED faults
       \/ /\ Raise("close", "StoreError")
          /\ UNCHANGED <<conn, context>>
    /\ UNCHANGED <<hasClient, op, seedVars, res, excepted>>
    /\ UNCHANGED dbVars
    /\ UNCHANGED auxVars

(***************************************************************************)
(* Vec.rag_chat                                                            *)
(***************************************************************************)
RagChatStart ==
    /\ pc = "idle"
    /\ op' = "rag_chat"
    /\ pc' = "rc_check"
    /\ UNCHANGED <<hasClient, conn, calls, faults, ret, seedVars, chatVars>>
    /\ UNCHANGED dbVars
    /\ UNCHANGED auxVars

\* Lines 438-442
RagChatCheck ==
    /\ pc = "rc_check"
    /\ IF ~hasClient
       THEN /\ ret' = Raised("ValueError")
            /\ pc' = "raised"
       ELSE /\ pc' = "gc_check"
            /\ UNCHANGED ret
    /\ UNCHANGED <<hasClient, op, conn, calls, faults, seedVars, chatVars>>
    /\ UNCHANGED dbVars
    /\ UNCHANGED auxVars

\* NoContext with the test written `context is None`.
NoContextIsNone(c) == c.none

\* `not context`: None or an empty list
NoContext(c) == c.none \/ c.rows = <<>>

\* RagChatBranch that tries the retrieval once more when it gave no context.
RagChatBranchRetries ==
    /\ pc = "rc_branch"
    /\ IF NoContext(context)
       THEN IF Count(calls, "embed") < 2
            THEN /\ pc' = "gc_embed"
                 /\ UNCHANGED ret
            ELSE /\ ret' = Returned(FALLBACK)
                 /\ pc' = "done"
       ELSE /\ pc' = "rc_complete"
            /\ UNCHANGED ret
    /\ UNCHANGED <<hasClient, op, conn, calls, faults, seedVars, chatVars>>
    /\ UNCHANGED dbVars
    /\ UNCHANGED auxVars

\* Lines 444-445
RagChatBranch ==
    /\ pc = "rc_branch"
    /\ IF NoContext(context)
       THEN /\ ret' = Returned(FALLBACK)
            /\ pc' = "done"
       ELSE /\ pc' = "rc_complete"
            /\ UNCHANGED ret
    /\ UNCHANGED <<hasClient, op, conn, calls, faults, seedVars, chatVars>>
    /\ UNCHANGED dbVars
    /\ UNCHANGED auxVars

\* What the first choice's message.content can be: a text or None.
Contents == {"answer", "None"}

\* RagChatComplete with the completion call wrapped in a handler that answers
\* the fallback string.
RagChatCompleteMasked ==
    /\ pc = "rc_complete"
    /\ Issue("completion")
    /\ \/ /\ \E content \in Contents :
               ret' = Returned(IF content # "None" THEN content ELSE "")
          /\ UNCHANGED faults
       \/ /\ faults' = faults \cup {"completion"}
          /\ ret' = Returned(FALLBACK)
    /\ pc' = "done"
    /\ UNCHANGED <<hasClient, op, conn, seedVars, chatVars>>
    /\ UNCHANGED dbVars
    /\ UNCHANGED auxVars

\* Lines 468-477
RagChatComplete ==
    /\ pc = "rc_complete"
    /\ Issue("completion")
    /\ \/ /\ \E content \in Contents :
               ret' = Returned(IF content # "None" THEN content ELSE "")
          /\ pc' = "done"
          /\ UNCHANGED faults
       \/ Raise("completion", "ProviderError")
    /\ UNCHANGED <<hasClient, op, conn, seedVars, chatVars>>
    /\ UNCHANGED dbVars
    /\ UNCHANGED auxVars

(***************************************************************************)
(* Vec.init                                                                *)
(***************************************************************************)
\* knowledge_hsnw_v2, lines 46-68: the statements after USE, in order
Script == <<"DEFINE TABLE", "REMOVE FIELD", "REMOVE INDEX", "DEFINE FIELD", "DEFINE INDEX">>

\* One statement of the script on the schema.  A strict store answers an error
\* for a DEFINE of what exists and a REMOVE of what is missing and leaves the
\* schema as it was for that statement; a lenient one overwrites or ignores.
\* Each statement has its own result, so the next one runs either way.
Apply(sch, stmt, strict) ==
    CASE stmt = "DEFINE TABLE" -> [sch EXCEPT !.table = TRUE]
      [] stmt = "REMOVE FIELD" -> [sch EXCEPT !.assert = FALSE]
      [] stmt = "REMOVE INDEX" -> [sch EXCEPT !.index = FALSE]
      [] stmt = "DEFINE FIELD" -> IF strict /\ sch.assert THEN sch
                                  ELSE [sch EXCEPT !.assert = TRUE]
      [] stmt = "DEFINE INDEX" -> IF strict /\ sch.index THEN sch
                                  ELSE [sch EXCEPT !.index = TRUE]

RECURSIVE RunScript(_, _, _)
\* The first n statements of the script, applied in order.
RunScript(sch, n, strict) ==
    IF n = 0 THEN sch
    ELSE Apply(RunScript(sch, n - 1, strict), Script[n], strict)

\* Line 181: init takes no argument and checks nothing before connecting.
InitStart ==
    /\ pc = "idle"
    /\ Len(initLog) < MaxInits
    /\ op' = "init"
    /\ pc' = "init_connect"
    /\ initStore' = store
    /\ UNCHANGED <<hasClient, conn, calls, faults, ret, seedVars, chatVars>>
    /\ UNCHANGED <<embedDim, schema, initLog, rerun, seeded>>
    /\ UNCHANGED auxVars

\* Lines 182-196: connect, signin, use, each logged and raised again on failure
InitSetup ==
    /\ \E step \in { <<"init_connect", "connect", "init_signin">>,
                     <<"init_signin", "signin", "init_use">>,
                     <<"init_use", "use", "init_query">> } :
         /\ pc = step[1]
         /\ Issue(step[2])
         /\ \/ /\ pc' = step[3]
               /\ conn' = "open"
               /\ UNCHANGED <<faults, ret>>
            \/ /\ Raise(step[2], "StoreError")
               /\ UNCHANGED conn
    /\ UNCHANGED <<hasClient, op, seedVars, chatVars, dbVars>>
    /\ UNCHANGED auxVars

\* The script changes the schema only: no statement of it reads or writes a row.
InitQueryWipes ==
    /\ pc = "init_query"
    /\ Issue("query")
    /\ \E strict \in BOOLEAN :
         /\ schema' = RunScript(schema, Len(Script), strict)
         /\ store' = EmptyStore
         /\ pc' = "init_close"
         /\ UNCHANGED <<faults, ret>>
    /\ UNCHANGED <<hasClient, op, conn, chatVars>>
    /\ UNCHANGED <<data_type, chunk, files, docs, idx, batch, tail, embedLog, upsertLog>>
    /\ UNCHANGED <<embedDim, initLog, initStore, rerun, seeded>>
    /\ UNCHANGED auxVars

\* Lines 197-207: the whole script in one query whose answer is dropped, so a
\* statement's error result goes unseen.  When the call itself raises, any
\* prefix of the script may have run.
InitQuery ==
    /\ pc = "init_query"
    /\ Issue("query")
    /\ \E strict \in BOOLEAN :
         \/ /\ schema' = RunScript(schema, Len(Script), strict)
            /\ pc' = "init_close"
            /\ UNCHANGED <<faults, ret>>
         \/ /\ \E n \in 0..(Len(Script) - 1) : schema' = RunScript(schema, n, strict)
            /\ Raise("query", "StoreError")
    /\ UNCHANGED <<hasClient, op, conn, seedVars, chatVars>>
    /\ UNCHANGED <<embedDim, initLog, initStore, rerun, seeded>>
    /\ UNCHANGED auxVars

\* Lines 208-212: close, logged and raised again on failure; then init returns
InitClose ==
    /\ pc = "init_close"
    /\ Issue("close")
    /\ \/ /\ conn' = "closed"
          /\ ret' = Returned("None")
          /\ pc' = "done"
          /\ initLog' = Append(initLog, schema)
          /\ UNCHANGED faults
       \/ /\ Raise("close", "StoreError")
          /\ UNCHANGED <<conn, initLog>>
    /\ UNCHANGED <<hasClient, op, seedVars, chatVars>>
    /\ UNCHANGED <<embedDim, schema, initStore, rerun, seeded>>
    /\ UNCHANGED auxVars

(***************************************************************************)
(* The caller                                                              *)
(***************************************************************************)
\* An init or seed call has returned and the caller goes on to its next call
\* on the same Vec: the locals of the ended call are gone, the object's fields
\* and the database stay.  (A call that raised ends the caller.)
NextCall ==
    /\ pc = "done"
    /\ op \in {"init", "seed"}
    /\ seeded' = (seeded \/ op = "seed")
    /\ op' = "idle"
    /\ pc' = "idle"
    /\ conn' = "none"
    /\ calls' = <<>>
    /\ faults' = {}
    /\ ret' = NoRet
    /\ data_type' = "json"
    /\ chunk' = 96
    /\ files' = FALSE
    /\ docs' = <<>>
    /\ idx' = 0
    /\ batch' = <<>>
    /\ tail' = FALSE
    /\ embedLog' = <<>>
    /\ upsertLog' = <<>>
    /\ rerun' = FALSE
    /\ initStore' = EmptyStore
    /\ UNCHANGED <<hasClient, store, chatVars, embedDim, schema, initLog>>
    /\ UNCHANGED auxVars

\* The seed task is cancelled between two batches, after at least one insert.
SeedCancel ==
    /\ pc = "seed_loop"
    /\ ~rerun
    /\ upsertLog # <<>>
    /\ ret' = Raised("CancelledError")
    /\ pc' = "cancelled"
    /\ UNCHANGED <<hasClient, op, conn, calls, faults, seedVars, chatVars, dbVars>>
    /\ UNCHANGED auxVars

\* The caller runs seed again with the arguments of the cancelled call.
SeedRerun ==
    /\ pc = "cancelled"
    /\ rerun' = TRUE
    /\ pc' = "seed_connect"
    /\ conn' = "none"
    /\ calls' = <<>>
    /\ faults' = {}
    /\ ret' = NoRet
    /\ idx' = 0
    /\ batch' = <<>>
    /\ tail' = FALSE
    /\ embedLog' = <<>>
    /\ upsertLog' = <<>>
    /\ UNCHANGED <<hasClient, op, data_type, chunk, files, docs, store, chatVars>>
    /\ UNCHANGED <<embedDim, schema, initLog, initStore, seeded>>
    /\ UNCHANGED auxVars

Next ==
    \/ InitStart
    \/ InitSetup
    \/ InitQuery
    \/ InitClose
    \/ NextCall
    \/ SeedStart
    \/ SeedConnect
    \/ SeedSetup
    \/ SeedLoad
    \/ SeedBatch
    \/ InsertCheck
    \/ InsertEmbed
    \/ InsertUpsert
    \/ SeedSample
    \/ GetContextStart
    \/ GetContextCheck
    \/ GetContextEmbed
    \/ GetContextConnect
    \/ GetContextSetup
    \/ GetContextQuery
    \/ GetContextClose
    \/ RagChatStart
    \/ RagChatCheck
    \/ RagChatBranch
    \/ RagChatComplete

Spec == Init /\ [][Next]_vars

\* One seed call that may be cancelled between two batches and run again.
NextRerun ==
    \/ SeedStart
    \/ SeedConnect
    \/ SeedSetup
    \/ SeedLoad
    \/ SeedBatch
    \/ InsertCheck
    \/ InsertEmbed
    \/ InsertUpsert
    \/ SeedSample
    \/ SeedCancel
    \/ SeedRerun

SpecRerun == Init /\ [][NextRerun]_vars

(***************************************************************************)
(* Vec.insert, called for several batches at once                          *)
(***************************************************************************)
ConcBatches == UNION { [1..k -> ConcDocs] : k \in 0..MaxBatch }

\* The source identities of a batch, as the source wrote them.
SourceIds(b) == { b[i].id : i \in DOMAIN b }

\* The caller starts one insert per batch (asyncio.gather of insert(batch, db)),
\* the batches having pairwise disjoint source identities.
ConcStart ==
    /\ pc = "idle"
    /\ \A t \in Tasks : tasks[t].pc = "none"
    /\ \E bs \in [Tasks -> ConcBatches] :
         /\ \A t, u \in Tasks : t # u => SourceIds(bs[t]) \cap SourceIds(bs[u]) = {}
         /\ tasks' = [t \in Tasks |-> [batch |-> bs[t], pc |-> "check"]]
    /\ op' = "insert"
    /\ pc' = "tasks"
    /\ conn' = "open"
    /\ UNCHANGED <<hasClient, calls, faults, ret, seedVars, chatVars, dbVars>>
    /\ UNCHANGED <<order, authVars, svcVars>>

\* Lines 313-320 for task t
ConcInsertCheck(t) ==
    /\ tasks[t].pc = "check"
    /\ tasks' = [tasks EXCEPT ![t].pc =
                    IF ~hasClient THEN "raised"
                    ELSE IF tasks[t].batch = <<>> THEN "done" ELSE "embed"]
    /\ UNCHANGED <<vecVars, order, authVars, svcVars>>

\* Lines 330-332 for task t: the await of embeddings.create lets the other task run
ConcInsertEmbed(t) ==
    /\ tasks[t].pc = "embed"
    /\ Issue("embed")
    /\ \/ /\ tasks' = [tasks EXCEPT ![t].pc = "upsert"]
          /\ UNCHANGED faults
       \/ /\ tasks' = [tasks EXCEPT ![t].pc = "raised"]
          /\ faults' = faults \cup {"embed"}
    /\ UNCHANGED <<hasClient, op, pc, conn, ret, seedVars, chatVars, dbVars>>
    /\ UNCHANGED <<order, authVars, svcVars>>

\* Lines 334-375 for task t: the items are built and written by one query, which
\* the store runs as a whole; no path of it raises.
ConcInsertUpsert(t) ==
    /\ tasks[t].pc = "upsert"
    /\ Issue("upsert")
    /\ \E r \in UpsertResponses :
         /\ r = "ok" => StoreAccepts(Items(tasks[t].batch))
         /\ order' = Append(order, [task |-> t, resp |-> r,
                                    items |-> Items(tasks[t].batch)])
         /\ store' = IF r = "ok" THEN Upsert(store, Items(tasks[t].batch)) ELSE store
         /\ faults' = IF r = "exception" THEN faults \cup {"upsert"} ELSE faults
    /\ tasks' = [tasks EXCEPT ![t].pc = "done"]
    /\ UNCHANGED <<hasClient, op, pc, conn, ret, chatVars, dbVars>>
    /\ UNCHANGED <<data_type, chunk, files, docs, idx, batch, tail, embedLog, upsertLog>>
    /\ UNCHANGED <<authVars, svcVars>>

NextConc ==
    \/ ConcStart
    \/ \E t \in Tasks : ConcInsertCheck(t)
    \/ \E t \in Tasks : ConcInsertEmbed(t)
    \/ \E t \in Tasks : ConcInsertUpsert(t)

SpecConc == Init /\ [][NextConc]_vars

(***************************************************************************)
(* UserService sessions and the auth decorators                            *)
(***************************************************************************)
\* UserService.validate_session on the dict `sessions`: the session when the
\* token is a key and the session has not expired (a sequence of one), else
\* none; an expired session is deleted from the dict.
ValidateSession(sessions, token) ==
    IF token \in DOMAIN sessions
    THEN IF ~sessions[token].expired
         THEN [session |-> <<sessions[token]>>, sessions |-> sessions]
         ELSE [session |-> <<>>,
               sessions |-> [t \in (DOMAIN sessions) \ {token} |-> sessions[t]]]
    ELSE [session |-> <<>>, sessions |-> sessions]

\* UserService.authenticate_user on the UserService that serves logins
AuthenticateUser ==
    /\ req.pc = "idle"
    /\ nextToken < MaxTokens
    /\ \E name \in (DOMAIN users) \cup {"nobody"}, pwOk \in BOOLEAN, dbOk \in BOOLEAN :
         IF ~dbOk
         THEN /\ login' = [ok |-> FALSE, msg |-> "Authentication error", token |-> NoToken]
              /\ UNCHANGED <<loginSessions, nextToken>>
         ELSE IF name \notin DOMAIN users
         THEN /\ login' = [ok |-> FALSE, msg |-> "Invalid username or password",
                           token |-> NoToken]
              /\ UNCHANGED <<loginSessions, nextToken>>
         ELSE IF ~users[name].active
         THEN /\ login' = [ok |-> FALSE, msg |-> "Account is deactivated", token |-> NoToken]
              /\ UNCHANGED <<loginSessions, nextToken>>
         ELSE IF ~pwOk
         THEN /\ login' = [ok |-> FALSE, msg |-> "Invalid username or password",
                           token |-> NoToken]
              /\ UNCHANGED <<loginSessions, nextToken>>
         ELSE /\ nextToken' = nextToken + 1
              /\ loginSessions' =
                    [t \in (DOMAIN loginSessions) \cup {nextToken + 1} |->
                        IF t = nextToken + 1
                        THEN [user_id |-> users[name].id, username |-> name,
                              role |-> users[name].role, expired |-> FALSE]
                        ELSE loginSessions[t]]
              /\ login' = [ok |-> TRUE, msg |-> "Authentication successful",
                           token |-> nextToken + 1]
    /\ UNCHANGED <<vecVars, concVars, svcVars, users, req, reqSessions, g>>

\* UserSession.is_expired becomes true for a session as time passes.
SessionExpires ==
    /\ \E t \in DOMAIN loginSessions :
         /\ ~loginSessions[t].expired
         /\ loginSessions' = [loginSessions EXCEPT ![t].expired = TRUE]
    /\ UNCHANGED <<vecVars, concVars, svcVars, users, nextToken, login, req, reqSessions, g>>

\* UserService.logout on the UserService that serves logins
Logout ==
    /\ req.pc = "idle"
    /\ \E t \in (DOMAIN loginSessions) \cup {Forged} :
         /\ loginSessions' = [u \in (DOMAIN loginSessions) \ {t} |-> loginSessions[u]]
         /\ login' = [ok |-> t \in DOMAIN loginSessions, msg |-> "logout", token |-> t]
    /\ UNCHANGED <<vecVars, concVars, svcVars, users, nextToken, req, reqSessions, g>>

\* A request reaches a handler wrapped by require_auth or optional_auth, with
\* some Authorization header (the token it carries, "Bearer " removed) and
\* some auth_token in the flask session.
RequestStart ==
    /\ req.pc = "idle"
    /\ \E dec \in {"require_auth", "optional_auth"},
          h \in {NoToken, Forged} \cup (1..nextToken),
          c \in {NoToken, Forged} \cup (1..nextToken) :
         req' = [NoReq EXCEPT !.dec = dec, !.header = h, !.cookie = c, !.pc = "token"]
    /\ UNCHANGED <<vecVars, concVars, svcVars, users, loginSessions, nextToken, login, reqSessions, g>>

\* The token of the header, else the one of the flask session; require_auth
\* answers 401 without one, optional_auth goes on to its return.
GetToken ==
    /\ req.pc = "token"
    /\ LET token == IF req.header # NoToken THEN req.header ELSE req.cookie
       IN  req' = IF token # NoToken
                  THEN [req EXCEPT !.token = token, !.pc = "service"]
                  ELSE IF req.dec = "require_auth"
                       THEN [req EXCEPT !.status = 401, !.result = "Authentication required",
                                        !.pc = "done"]
                       ELSE [req EXCEPT !.pc = "return"]
    /\ UNCHANGED <<vecVars, concVars, svcVars, users, loginSessions, nextToken, login, reqSessions, g>>

\* user_service = UserService(); user_service.connect(), before the try
NewUserService ==
    /\ req.pc = "service"
    /\ reqSessions' = NoSessions
    /\ \/ req' = [req EXCEPT !.pc = "validate"]
       \/ req' = [req EXCEPT !.status = 500, !.result = "exception", !.pc = "done"]
    /\ UNCHANGED <<vecVars, concVars, svcVars, users, loginSessions, nextToken, login, g>>

\* validate_session on the new UserService; with a session, g is filled and
\* require_auth calls the handler; without one, require_auth answers 401.
Validate ==
    /\ req.pc = "validate"
    /\ LET v == ValidateSession(reqSessions, req.token)
       IN  /\ reqSessions' = v.sessions
           /\ IF v.session # <<>>
              THEN /\ g' = [set |-> TRUE, user_id |-> v.session[1].user_id,
                            role |-> v.session[1].role]
                   /\ req' = IF req.dec = "require_auth"
                             THEN [req EXCEPT !.ran = TRUE, !.status = 200,
                                              !.result = "handler", !.pc = "close"]
                             ELSE [req EXCEPT !.pc = "close"]
              ELSE /\ g' = g
                   /\ req' = IF req.dec = "require_auth"
                             THEN [req EXCEPT !.status = 401,
                                              !.result = "Invalid or expired session",
                                              !.pc = "close"]
                             ELSE [req EXCEPT !.pc = "close"]
    /\ UNCHANGED <<vecVars, concVars, svcVars, users, loginSessions, nextToken, login>>

\* finally: user_service.close(); an exception of it replaces the answer
CloseUserService ==
    /\ req.pc = "close"
    /\ \/ req' = [req EXCEPT !.pc = IF req.dec = "require_auth" THEN "done" ELSE "return"]
       \/ req' = [req EXCEPT !.status = 500, !.result = "exception", !.pc = "done"]
    /\ UNCHANGED <<vecVars, concVars, svcVars, users, loginSessions, nextToken, login, reqSessions, g>>

\* optional_auth, last line of the wrapper: return cast(F, decorated_function)
OptionalReturn ==
    /\ req.pc = "return"
    /\ req' = [req EXCEPT !.result = "decorated_function", !.pc = "done"]
    /\ UNCHANGED <<vecVars, concVars, svcVars, users, loginSessions, nextToken, login, reqSessions, g>>

\* The request is over; the next one starts with an empty g.
RequestEnd ==
    /\ req.pc = "done"
    /\ req' = NoReq
    /\ g' = NoG
    /\ reqSessions' = NoSessions
    /\ UNCHANGED <<vecVars, concVars, svcVars, users, loginSessions, nextToken, login>>

NextAuth ==
    \/ AuthenticateUser
    \/ SessionExpires
    \/ Logout
    \/ RequestStart
    \/ GetToken
    \/ NewUserService
    \/ Validate
    \/ CloseUserService
    \/ OptionalReturn
    \/ RequestEnd

SpecAuth == Init /\ [][NextAuth]_vars

(***************************************************************************)
(* find_recommendations                                                    *)
(***************************************************************************)
\* What ->received_treatment.outcome->(SELECT status ...) gives for one
\* treatment edge: a list with the status, or an empty list.
OutcomeLists == {<<>>, <<"Remission">>}

\* The rows of the hybrid query: the treatments reached from the patient and
\* the outcomes reached from the same edges; the two lists need not be of one
\* length (an edge without outcome adds nothing to the second).
CaseRows ==
    { [treatments |-> t, outcomes |-> o] :
        t \in UNION { [1..k -> {"chemo"}] : k \in 0..MaxTreatments },
        o \in UNION { [1..k -> OutcomeLists] : k \in 0..MaxTreatments } }

\* What db.query answers: nothing usable (empty, or no "result"), or the rows.
RecResponses == UNION { [1..k -> CaseRows] : k \in 0..MaxCases }

\* Lines 72-97: model, connection, signin, use, encode and the query; any of
\* them may raise.  Lines 102-103 and 117-118: without rows, "No similar cases".
RecQuery ==
    /\ rec.pc = "idle"
    /\ \/ rec' = [rec EXCEPT !.pc = "raised", !.err = "StoreError"]
       \/ \E cases \in RecResponses :
            rec' = IF cases = <<>>
                   THEN [rec EXCEPT !.pc = "done", !.printed = <<"No similar cases found.">>]
                   ELSE [rec EXCEPT !.pc = "case", !.cases = cases, !.i = 1]
    /\ UNCHANGED <<vecVars, concVars, authVars, upload, creators, created>>

\* Lines 104-108 and 116: the loop over the cases
RecCase ==
    /\ rec.pc = "case"
    /\ rec' = IF rec.i > Len(rec.cases)
              THEN [rec EXCEPT !.pc = "done"]
              ELSE [rec EXCEPT !.pc = "treatment", !.j = 1]
    /\ UNCHANGED <<vecVars, concVars, authVars, upload, creators, created>>

\* Lines 110-114: case["outcomes"][j][0] if case["outcomes"] and
\* case["outcomes"][j] else "Unknown"; j is the 0-based index of the code + 1.
OutcomeStatus(case, j) ==
    IF case.outcomes = <<>>
    THEN [raises |-> FALSE, status |-> "Unknown"]
    ELSE IF j > Len(case.outcomes)
         THEN [raises |-> TRUE, status |-> "IndexError"]
         ELSE IF case.outcomes[j] = <<>>
              THEN [raises |-> FALSE, status |-> "Unknown"]
              ELSE [raises |-> FALSE, status |-> case.outcomes[j][1]]

\* Lines 109-115: the loop over the treatments of case i
RecTreatment ==
    /\ rec.pc = "treatment"
    /\ LET case == rec.cases[rec.i]
       IN  rec' = IF rec.j > Len(case.treatments)
                  THEN [rec EXCEPT !.pc = "case", !.i = rec.i + 1]
                  ELSE LET o == OutcomeStatus(case, rec.j)
                       IN  IF o.raises
                           THEN [rec EXCEPT !.pc = "raised", !.err = o.status]
                           ELSE [rec EXCEPT !.printed = Append(rec.printed, o.status),
                                            !.j = rec.j + 1]
    /\ UNCHANGED <<vecVars, concVars, authVars, upload, creators, created>>

NextRec ==
    \/ RecQuery
    \/ RecCase
    \/ RecTreatment

SpecRec == Init /\ [][NextRec]_vars

(***************************************************************************)
(* process_upload_task                                                     *)
(***************************************************************************)
FileTypes == {"pdf", "image", "audio", "text"}

\* How a call of update_upload_status can end: the record is written and the
\* call returns; the call raises and nothing is written; the record is written
\* and the call raises all the same (the answer is lost); nothing is written
\* and the call returns (it handles the store's error itself).
WriteOutcomes == {"written", "raised", "written_raised", "dropped"}

\* The call returned to the task.
Returns(o) == o \in {"written", "dropped"}

\* The Upload record after update_upload_status(status, processed_text) ended in
\* the way o.
Written(u, o, status, text) ==
    IF o \in {"raised", "dropped"} THEN u
    ELSE [u EXCEPT !.status = status, !.text = text, !.writes = Append(u.writes, status)]

\* The task is delivered for the upload (again, when the broker redelivers it).
UploadStart ==
    /\ upload.pc \in {"idle", "done", "raised"}
    /\ upload.runs < MaxRuns
    /\ \E ft \in FileTypes :
         upload' = [upload EXCEPT !.pc = "processing", !.file_type = ft, !.result_text = "",
                                  !.writes = <<>>, !.raised = FALSE,
                                  !.runs = upload.runs + 1]
    /\ UNCHANGED <<vecVars, concVars, authVars, rec, creators, created>>

\* Line 15: update_upload_status(upload_id, UploadStatus.PROCESSING), in the try
UploadProcessing ==
    /\ upload.pc = "processing"
    /\ \E o \in WriteOutcomes :
         upload' = [Written(upload, o, "PROCESSING", upload.text) EXCEPT
                       !.pc = IF Returns(o) THEN "work" ELSE "except",
                       !.result_text = IF Returns(o) THEN "" ELSE "error"]
    /\ UNCHANGED <<vecVars, concVars, authVars, rec, creators, created>>

\* Lines 16-28: OCR for pdf and image (it may raise), a placeholder for audio,
\* nothing for the rest
UploadWork ==
    /\ upload.pc = "work"
    /\ \/ /\ upload.file_type \in {"pdf", "image"}
          /\ \/ upload' = [upload EXCEPT !.result_text = "ocr text", !.pc = "completed"]
             \/ upload' = [upload EXCEPT !.result_text = "error", !.pc = "except"]
       \/ /\ upload.file_type = "audio"
          /\ upload' = [upload EXCEPT !.result_text = "[Transcription not implemented yet]",
                                      !.pc = "completed"]
       \/ /\ upload.file_type \notin {"pdf", "image", "audio"}
          /\ upload' = [upload EXCEPT !.result_text = "", !.pc = "completed"]
    /\ UNCHANGED <<vecVars, concVars, authVars, rec, creators, created>>

\* Lines 29-30: update_upload_status(COMPLETED, processed_text=result_text),
\* still in the try
UploadCompleted ==
    /\ upload.pc = "completed"
    /\ \E o \in WriteOutcomes :
         upload' = [Written(upload, o, "COMPLETED", upload.result_text) EXCEPT
                       !.pc = IF Returns(o) THEN "done" ELSE "except",
                       !.result_text = IF Returns(o) THEN upload.result_text ELSE "error"]
    /\ UNCHANGED <<vecVars, concVars, authVars, rec, creators, created>>

\* Lines 31-33: except Exception: update_upload_status(FAILED, str(e)), with no
\* handler around it
UploadFailed ==
    /\ upload.pc = "except"
    /\ \E o \in WriteOutcomes :
         upload' = [Written(upload, o, "FAILED", upload.result_text) EXCEPT
                       !.pc = IF Returns(o) THEN "done" ELSE "raised",
                       !.raised = ~Returns(o)]
    /\ UNCHANGED <<vecVars, concVars, authVars, rec, creators, created>>

NextUpload ==
    \/ UploadStart
    \/ UploadProcessing
    \/ UploadWork
    \/ UploadCompleted
    \/ UploadFailed

SpecUpload == Init /\ [][NextUpload]_vars

(***************************************************************************)
(* UserService.create_user                                                 *)
(***************************************************************************)
\* The usernames and emails the callers ask for (all pass the validators).
NewNames == {"carol", "dave"}

NewEmails == {"c@x.org", "d@x.org"}

\* SELECT * FROM User WHERE <field> = value on the User table: the rows found.
\* The table has no unique index, a row's id is generated by the store.
Found(field, value) ==
    { i \in DOMAIN created : created[i][field] = value }

\* create_user is called; lines 27-38: the three validators (a refusal returns)
CreateStart(t) ==
    /\ creators[t].pc = "idle"
    /\ \/ \E n \in NewNames, e \in NewEmails :
            creators' = [creators EXCEPT ![t] =
                [pc |-> "check_username", username |-> n, email |-> e, ret |-> ""]]
       \/ creators' = [creators EXCEPT ![t] =
                [pc |-> "done", username |-> "", email |-> "", ret |-> "invalid input"]]
    /\ UNCHANGED <<vecVars, concVars, authVars, rec, upload, created>>

\* Lines 41-44 with get_user_by_username (107-124): the query's exception is
\* caught there and answered None, as if no user had the name.
CheckUsername(t) ==
    /\ creators[t].pc = "check_username"
    /\ \E queryRaises \in BOOLEAN :
         LET existing == ~queryRaises /\
                         (creators[t].username \in DOMAIN users
                            \/ Found("username", creators[t].username) # {})
         IN  creators' = [creators EXCEPT ![t] =
                 IF existing
                 THEN [@ EXCEPT !.pc = "done", !.ret = "Username already exists"]
                 ELSE [@ EXCEPT !.pc = "check_email"]]
    /\ UNCHANGED <<vecVars, concVars, authVars, rec, upload, created>>

\* Lines 46-49 with get_user_by_email (126-143)
CheckEmail(t) ==
    /\ creators[t].pc = "check_email"
    /\ \E queryRaises \in BOOLEAN :
         LET existing == ~queryRaises /\ Found("email", creators[t].email) # {}
         IN  creators' = [creators EXCEPT ![t] =
                 IF existing
                 THEN [@ EXCEPT !.pc = "done", !.ret = "Email already exists"]
                 ELSE [@ EXCEPT !.pc = "create"]]
    /\ UNCHANGED <<vecVars, concVars, authVars, rec, upload, created>>

\* Lines 51-67: self.db.create('User', user.to_dict()); DbController.create
\* answers {} when the store raises.
CreateRecord(t) ==
    /\ creators[t].pc = "create"
    /\ \/ /\ created' = Append(created, [username |-> creators[t].username,
                                         email |-> creators[t].email])
          /\ creators' = [creators EXCEPT ![t].pc = "done",
                                          ![t].ret = "User created successfully"]
       \/ /\ creators' = [creators EXCEPT ![t].pc = "done",
                                          ![t].ret = "Failed to create user in database"]
          /\ UNCHANGED created
    /\ UNCHANGED <<vecVars, concVars, authVars, rec, upload>>

NextUsers ==
    \/ \E t \in Creators : CreateStart(t)
    \/ \E t \in Creators : CheckUsername(t)
    \/ \E t \in Creators : CheckEmail(t)
    \/ \E t \in Creators : CreateRecord(t)

SpecUsers == Init /\ [][NextUsers]_vars

(***************************************************************************)
(* Properties                                                              *)
(***************************************************************************)
Ended == pc \in {"done", "raised"}

\* The calls whose failure is a failure of one batch of a seed run.
BatchFaults == {"embed", "file", "upsert"}

AllItemsOk == \A k \in 1..Len(docs) : BatchItemOk(docs[k])

CeilDiv(n, b) == (n + b - 1) \div b

\* C1: a failure while processing one batch of a seed run (embedding error,
\* store error, file-read error) is recorded for that batch only: seed does not
\* raise and goes on to the end of the source.
C1_BatchFailureDoesNotAbortSeed ==
    (/\ op = "seed"
     /\ Ended
     /\ hasClient
     /\ AllItemsOk
     /\ faults # {}
     /\ faults \subseteq BatchFaults)
    => (pc = "done" /\ idx = Len(docs))

\* C2: for a non-empty source of n well-formed records and a batch size b >= 1,
\* a seed run in which no call fails returns normally and has issued exactly
\* ceil(n / b) embedding calls.
C2_EmbedCallsAreCeil ==
    (/\ op = "seed"
     /\ Ended
     /\ hasClient
     /\ faults = {}
     /\ Len(docs) > 0
     /\ AllItemsOk
     /\ chunk >= 1)
    => (pc = "done" /\ Count(calls, "embed") = CeilDiv(Len(docs), chunk))

\* A finished seed run of 3 records in batches of 2 with no failure.
C2_Witness ==
    /\ op = "seed"
    /\ pc = "done"
    /\ hasClient
    /\ faults = {}
    /\ Len(docs) = 3
    /\ AllItemsOk
    /\ chunk = 2
    /\ embedLog = <<2, 1>>

\* C3: the store connection opened by a seed run is closed on every exit path
\* of seed.
C3_SeedClosesConnection ==
    (op = "seed" /\ Ended /\ conn # "none") => Count(calls, "close") > 0

\* C4: the store connection opened by a get_context call is closed on every
\* exit path of get_context, also when signin or use fails after connecting.
C4_GetContextClosesConnection ==
    (op \in {"get_context", "rag_chat"} /\ Ended /\ conn # "none")
    => Count(calls, "close") > 0

\* C5: when the similarity query answers a value that is neither a list of rows
\* nor a {result: [...]} envelope, get_context returns None and does not raise.
C5_MalformedAnswerReturnsNone ==
    (/\ op = "get_context"
     /\ Ended
     /\ conn = "closed"
     /\ res.kind \notin {"unset", "list", "envelope"})
    => ret = ReturnedCtx(NoneCtx)

\* C6: malformed input to seed (unsupported data type, a record with an empty
\* id or text) makes seed raise before any network call is made.
C6_MalformedInputRaisesBeforeCalls ==
    (op = "seed" /\ hasClient /\ pc = "raised" /\ ret.val = "ValueError")
    => calls = <<>>

\* C7: a Vec with no embedding client makes no store or provider call, and
\* seed, get_context and rag_chat each end by raising the precondition error.
C7_NoClientFailsImmediately ==
    ~hasClient => (calls = <<>> /\ (Ended => ret = Raised("ValueError")))

\* C8: if get_context yields no context rows, rag_chat returns exactly the
\* fallback string and never calls the completion service; the completion
\* service is called only when at least one passage was retrieved.
C8_FallbackWithoutCompletion ==
    op = "rag_chat" =>
      /\ (/\ pc \in {"rc_branch", "rc_complete", "done"}
          /\ (context.none \/ Len(context.rows) = 0))
         => /\ Count(calls, "completion") = 0
            /\ pc # "rc_complete"
            /\ pc = "done" => ret = Returned(FALLBACK)
      /\ Count(calls, "completion") > 0
         => (~context.none /\ Len(context.rows) >= 1)

\* rag_chat has returned the fallback after the store answered rows of which
\* none carried a text.
C8_Witness ==
    /\ op = "rag_chat"
    /\ pc = "done"
    /\ res.kind \in {"list", "envelope"}
    /\ Len(res.rows) > 0
    /\ context = ListCtx(<<>>)
    /\ ret = Returned(FALLBACK)

\* C9 as stated: an error raised by the embedding provider, the store or the
\* completion service at any stage of rag_chat reaches the caller as a failure.
C9_EveryErrorReachesCaller ==
    (op = "rag_chat" /\ Ended /\ faults # {}) => pc = "raised"

\* C9 as amended: an error of the embedding call, of connect, signin, use or
\* close, or of the completion call reaches rag_chat's caller as a failure; an
\* exception of the similarity query is caught by get_context and rag_chat
\* then returns the fallback string.
C9_ErrorsReachCallerExceptQuery ==
    op = "rag_chat" =>
      /\ faults \cap {"embed", "connect", "signin", "use", "close", "completion"} # {}
         => (pc = "raised" /\ ret.kind = "raised")
      /\ (pc = "done" /\ "query" \in faults) => ret = Returned(FALLBACK)

\* rag_chat has returned although the similarity query raised.
C9_Witness ==
    /\ op = "rag_chat"
    /\ pc = "done"
    /\ faults = {"query"}
    /\ ret = Returned(FALLBACK)

\* C10: whatever the embedding call and the store calls of retrieval do,
\* get_context returns the context or None: with a client present, no
\* exception leaves get_context, so rag_chat can only fail in the completion.
C10_RetrievalNeverRaises ==
    (hasClient /\ op \in {"get_context", "rag_chat"} /\ pc = "raised")
    => Count(calls, "completion") > 0

RECURSIVE Ingested(_)
\* The records of the batches the store reported as written, oldest first.
Ingested(log) ==
    IF log = <<>> THEN <<>>
    ELSE LET e == log[Len(log)]
         IN  Ingested(SubSeq(log, 1, Len(log) - 1)) \o (IF e.resp = "ok" THEN e.batch ELSE <<>>)

\* The identity of a record: its key within the collection, whatever prefix
\* the source put before it.
Identity(d) == d.id[Len(d.id)]

\* The last record of ds with the identity k.
Latest(ds, k) ==
    ds[CHOOSE i \in DOMAIN ds :
          /\ Identity(ds[i]) = k
          /\ \A j \in DOMAIN ds : Identity(ds[j]) = k => j <= i]

\* The store that holds, for each identity of ds, one record with the text and
\* the embedding of the last record of ds with that identity.
LatestPerIdentity(ds) ==
    [k \in { <<"knowledge", Identity(ds[i])>> : i \in DOMAIN ds } |->
        [text |-> Latest(ds, k[2]).text,
         embedding |-> [of |-> Latest(ds, k[2]).text, dim |-> embedDim]]]

\* C11: after any sequence of successful ingestions the store holds exactly one
\* record per ingested identity, with the text and the embedding of the most
\* recent ingestion of that identity (last write wins).
C11_LastWriteWins ==
    op = "seed" => store = LatestPerIdentity(Ingested(upsertLog))

\* An identity was ingested twice, in two batches, with different texts, and
\* another identity was ingested too.
C11_Witness ==
    /\ op = "seed"
    /\ Cardinality(DOMAIN store) = 2
    /\ \E i, j \in DOMAIN upsertLog :
         /\ i < j
         /\ upsertLog[i].resp = "ok"
         /\ upsertLog[j].resp = "ok"
         /\ \E a \in DOMAIN upsertLog[i].batch, b \in DOMAIN upsertLog[j].batch :
              /\ Identity(upsertLog[i].batch[a]) = Identity(upsertLog[j].batch[b])
              /\ upsertLog[i].batch[a].text # upsertLog[j].batch[b].text

\* Every batch of the running seed call was reported written by the store.
AllWritten == \A i \in DOMAIN upsertLog : upsertLog[i].resp = "ok"

\* C12: a seed run on the same source after a run that was cancelled between
\* two batches leaves the store with exactly the records of one uninterrupted
\* run: one record per identity of the source, with its text and embedding.
C12_RerunEqualsOneRun ==
    (rerun /\ pc = "done" /\ faults = {} /\ AllWritten)
        => store = LatestPerIdentity(docs)

\* A second run over three records in more than one batch has ended, the source
\* naming one identity twice with different texts.
C12_Witness ==
    /\ rerun
    /\ pc = "done"
    /\ faults = {}
    /\ AllWritten
    /\ Len(docs) = MaxDocs
    /\ Len(upsertLog) > 1
    /\ Cardinality(DOMAIN store) < Len(docs)

\* C13: a record whose embedding has another length than the declared
\* dimension is never written: no upsert is issued with such a vector, and
\* every stored embedding has the declared length.
C13_WrongLengthNeverWritten ==
    /\ \A i \in DOMAIN upsertLog : upsertLog[i].dim = DIMENSION
    /\ \A k \in DOMAIN store : store[k].embedding.dim = DIMENSION

\* C14: no record write is issued before the dimension assertion and the
\* similarity index exist on the collection: once a seed run has issued an
\* upsert, both are defined.
C14_SchemaBeforeFirstWrite ==
    (op = "seed" /\ Count(calls, "upsert") > 0) => (schema.assert /\ schema.index)

\* C15: init is idempotent.  An init call none of whose store calls raised
\* returns, also on a collection that already has the schema; every init call
\* that returned left the same table, assertion and index as the first one;
\* and an init call leaves the stored records as it found them.
C15_InitIdempotent ==
    op = "init" =>
        /\ (Ended /\ faults = {}) => pc = "done"
        /\ pc = "done" => schema = initLog[Len(initLog)]
        /\ \A i \in DOMAIN initLog : initLog[i] = initLog[1]
        /\ store = initStore

\* A second init call has returned, on a collection that holds records.
C15_Witness ==
    /\ op = "init"
    /\ pc = "done"
    /\ Len(initLog) = 2
    /\ DOMAIN store # {}
    /\ schema.assert /\ schema.index

\* C17: a seed run reports its outcome to the caller: what a finished seed
\* hands back carries the counts of succeeded and failed batches, so it is
\* something else than None.
C17_SeedReportsBatchCounts ==
    (op = "seed" /\ pc = "done") => ret # Returned("None")

\* The text fields of the rows that are dicts with a text, in the order of rows.
TextFieldsInOrder(rows) ==
    LET kept == SelectSeq(rows, LAMBDA row : row.isDict /\ row.hasText)
    IN  [i \in 1..Len(kept) |-> kept[i].text]

\* C18: get_context maps a flat list of rows L and the envelope {result: L} to
\* the same output: the text fields of the rows of L in the order the store
\* returned them.
C18_ListAndEnvelopeSameTexts ==
    (op = "get_context" /\ pc = "done" /\ ~excepted /\ res.kind \in {"list", "envelope"})
        => ret = ReturnedCtx(ListCtx(TextFieldsInOrder(res.rows)))

\* get_context has returned the passages of an envelope whose rows came in an
\* order that sorting would change.
C18_Witness ==
    /\ op = "get_context"
    /\ pc = "done"
    /\ ~excepted
    /\ res.kind = "envelope"
    /\ ret.ctx.rows = <<"p2", "p1">>

\* The store after the batches of the two tasks are inserted one after the
\* other, first then second.
OneAfterAnother(first, second) ==
    Upsert(Upsert(EmptyStore, Items(tasks[first].batch)), Items(tasks[second].batch))

\* C16: when batches with pairwise disjoint source identities are inserted
\* concurrently and every write is reported done, the final store is the same
\* whatever the interleaving: it is the store that inserting the batches one
\* after another gives, in either order.
C16_InterleavingIndependent ==
    ((\A t \in Tasks : tasks[t].pc = "done")
        /\ Len(order) = Cardinality(Tasks)
        /\ (\A i \in DOMAIN order : order[i].resp = "ok"))
        => (store = OneAfterAnother(1, 2) /\ store = OneAfterAnother(2, 1))

\* C19: a token returned by a successful authenticate_user is accepted by
\* require_auth on a later request: while the session is neither expired nor
\* logged out, the handler runs with that user's session in the request context.
C19_IssuedTokenAccepted ==
    (/\ req.dec = "require_auth"
     /\ req.pc = "done"
     /\ req.status # 500
     /\ req.token \in DOMAIN loginSessions
     /\ ~loginSessions[req.token].expired)
        => (req.ran /\ g.set /\ g.user_id = loginSessions[req.token].user_id)

\* C20: a handler wrapped by optional_auth is always invoked and its result is
\* what the caller gets, with no token, an invalid token or a valid token.
C20_OptionalAuthRunsHandler ==
    (req.dec = "optional_auth" /\ req.pc = "done" /\ req.status # 500)
        => (req.ran /\ req.result = "handler")

RECURSIVE Concat(_)
\* The records of all the batches handed to the store, oldest batch first.
Concat(log) ==
    IF log = <<>> THEN <<>>
    ELSE Concat(SubSeq(log, 1, Len(log) - 1)) \o log[Len(log)].batch

\* The embedding and upsert calls of the run, in the order they were issued.
BatchCalls == SelectSeq(calls, LAMBDA c : c \in {"embed", "upsert"})

\* C21: a seed run that returns, with a batch size b >= 1, has cut the parsed
\* records in source order into consecutive batches, every batch but the last
\* of exactly b records and the last of 1..b, and has issued for each batch one
\* embedding call followed by one upsert of the same size; a source of no
\* records gives no such call.
C21_ConsecutiveBatches ==
    (op = "seed" /\ pc = "done" /\ chunk >= 1)
        => /\ Concat(upsertLog) = docs
           /\ \A i \in DOMAIN upsertLog :
                /\ upsertLog[i].size = Len(upsertLog[i].batch)
                /\ upsertLog[i].size >= 1
                /\ upsertLog[i].size <= chunk
                /\ i < Len(upsertLog) => upsertLog[i].size = chunk
           /\ embedLog = [i \in DOMAIN upsertLog |-> upsertLog[i].size]
           /\ Len(BatchCalls) = 2 * Len(upsertLog)
           /\ \A i \in DOMAIN BatchCalls :
                BatchCalls[i] = (IF i % 2 = 1 THEN "embed" ELSE "upsert")

\* Three records in batches of two: embedding calls of sizes 2 and 1, two upserts.
C21_Witness ==
    /\ op = "seed"
    /\ pc = "done"
    /\ chunk = 2
    /\ Len(docs) = 3
    /\ embedLog = <<2, 1>>
    /\ BatchCalls = <<"embed", "upsert", "embed", "upsert">>

\* C22: every batch seed hands to the embedding provider and to the store has
\* at most batchSize records, for every chunk a caller can pass, 0 included.
C22_BatchAtMostChunk ==
    op = "seed" =>
        /\ \A i \in DOMAIN embedLog : embedLog[i] <= chunk
        /\ \A i \in DOMAIN upsertLog : upsertLog[i].size <= chunk

C24_WriteNeverRaises ==
    [][pc = "ins_upsert" =>
          /\ pc' \in {"seed_loop", "seed_sample"}
          /\ ret' = ret
          /\ Len(upsertLog') = Len(upsertLog) + 1
          /\ upsertLog'[Len(upsertLog')].logged \in {"ok", "error", "fail"}]_vars

\* A seed run has returned after one upsert raised and another was answered
\* with a list of items that are not dicts.
C24_Witness ==
    /\ op = "seed"
    /\ pc = "done"
    /\ \E i, j \in DOMAIN upsertLog :
         /\ upsertLog[i].resp = "exception"
         /\ upsertLog[j].resp = "nondict"

\* C25: whenever the store's answer to the upsert holds an error status for
\* any item, at any position of the list, insert reports the batch as failed
\* and does not log it as processed.
C25_AnyErrorStatusIsFailure ==
    \A i \in DOMAIN upsertLog :
        upsertLog[i].resp \in {"err_first", "err_later"} => upsertLog[i].logged # "ok"

\* A source identity with the collection's own prefix removed and nothing else.
StripCollection(id) ==
    IF Len(id) > 1 /\ id[1] = "knowledge" THEN SubSeq(id, 2, Len(id)) ELSE id

\* C26: insert removes only the collection prefix: two source identities that
\* still differ once that prefix is removed are written under different
\* stored identities.
C26_OnlyCollectionPrefixRemoved ==
    \A m, n \in DOMAIN order :
        \A i \in DOMAIN order[m].items, j \in DOMAIN order[n].items :
            StripCollection(tasks[order[m].task].batch[i].id)
                    # StripCollection(tasks[order[n].task].batch[j].id)
                => order[m].items[i].id # order[n].items[j].id

\* The positions of the calls named c in the history of calls.
CallsAt(c) == { i \in DOMAIN calls : calls[i] = c }

\* C27: a rag_chat call makes one embedding call, then at most one similarity
\* query, then at most one completion call, in that order, and repeats no call:
\* a call that has a client and has ended made exactly one embedding call.
C27_NoRetries ==
    op = "rag_chat" =>
        /\ \A c \in {"embed", "connect", "signin", "use", "query", "close", "completion"} :
             Cardinality(CallsAt(c)) <= 1
        /\ \A i \in CallsAt("query") : \E j \in CallsAt("embed") : j < i
        /\ \A i \in CallsAt("completion") : \E j \in CallsAt("query") : j < i
        /\ (Ended /\ hasClient) => Cardinality(CallsAt("embed")) = 1
        /\ pc = "raised" => Cardinality(CallsAt("completion")) = Cardinality(faults \cap {"completion"})

\* A rag_chat call has returned an answer after one embedding call, one query
\* and one completion call.
C27_Witness ==
    /\ op = "rag_chat"
    /\ pc = "done"
    /\ calls = <<"embed", "connect", "signin", "use", "query", "close", "completion">>
    /\ ret = Returned("answer")

\* C28: find_recommendations handles every row shape of the hybrid query
\* without failing: it raises only when a store call raises, never while it
\* reports the outcomes of the rows.
C28_EveryRowShapeHandled ==
    rec.pc = "raised" => rec.err = "StoreError"

\* The statuses that end the processing of an upload.
Terminal == {"COMPLETED", "FAILED"}

\* C29: every run of process_upload_task sets PROCESSING first and then makes
\* exactly one terminal status update; it never leaves the upload in
\* PROCESSING and never sets FAILED after COMPLETED.
C29_OneTerminalUpdate ==
    upload.pc \in {"done", "raised"} =>
        /\ upload.writes # <<>>
        /\ upload.writes[1] = "PROCESSING"
        /\ Cardinality({ i \in DOMAIN upload.writes : upload.writes[i] \in Terminal }) = 1
        /\ upload.status \in Terminal
        /\ \A i, j \in DOMAIN upload.writes :
             (upload.writes[i] = "COMPLETED" /\ upload.writes[j] = "FAILED") => j < i

\* C30: create_user never creates two user records with the same username,
\* for any sequence of calls and also when two calls for the same username run
\* at the same time against the same database.
C30_UsernamesUnique ==
    \A i, j \in DOMAIN created :
        created[i].username = created[j].username => i = j

====
